---------------------------- MODULE Spec2Model ----------------------------
(***************************************************************************)
(* micrograd-rs: a scalar reverse-mode autodiff engine (src/src/value.rs)  *)
(* and its demo driver (src/src/main.rs).                                  *)
(*                                                                         *)
(* A Value owns a number, a gradient, an optional operation tag, an        *)
(* optional vector of mutable references to its operands, and a label.     *)
(* Values live in an arena (the sequence `nodes`); a reference             *)
(* `&'a mut Value<'a>` is the arena index of the value it points to.       *)
(*                                                                         *)
(* f64 numbers are modelled as decimal fixed-point numbers with SCALE      *)
(* units per 1.0; a product is rounded to the nearest unit (ties to even)  *)
(* as an IEEE product is rounded to the nearest double.  NaN and the       *)
(* infinities are outside the model.                                       *)
(***************************************************************************)
EXTENDS Integers, Sequences, FiniteSets

VARIABLES
    nodes,      \* the arena: every Value constructed so far
    pc,         \* "free": an arbitrary client of the library;
                \* "raw": code inside value.rs using the private builders;
                \* otherwise the line of main.rs about to execute
    call,       \* the most recent call made by the client, when it was a
                \* backward, an apply_grad or a graph, with the graph built
    applied,    \* the number of apply_grad calls made so far
    writes,     \* the number of calls of the arbitrary client that wrote a
                \* gradient or a value (grad = g, backward, apply_grad)
    panicked    \* TRUE once an index or unwrap has panicked

vars == <<nodes, pc, call, applied, writes, panicked>>

---------------------------------------------------------------------------
(* Bounds of the model *)

MaxNodes == 3
MaxWrites == 3

---------------------------------------------------------------------------
(* f64 arithmetic *)

SCALE == 10

ONE == SCALE

Abs(x) == IF x < 0 THEN -x ELSE x

\* n / d (d > 0) rounded to the nearest integer, ties to even
RoundDiv(n, d) ==
    LET q  == Abs(n) \div d
        r  == Abs(n) % d
        m  == IF 2 * r > d \/ (2 * r = d /\ q % 2 = 1) THEN q + 1 ELSE q
    IN  IF n < 0 THEN -m ELSE m

FAdd(a, b) == a + b

FSub(a, b) == a - b

FMul(a, b) == RoundDiv(a * b, SCALE)

\* f64::powi(2)
Powi2(x) == FMul(x, x)

\* tanh(k/10) in tenths, correctly rounded, for k = 0..18; tanh(x) rounds
\* to 1.0 from x = 1.9 on
TanhTable == <<0, 1, 2, 3, 4, 5, 5, 6, 7, 7, 8, 8, 8, 9, 9, 9, 9, 9, 9>>

\* f64::tanh
FTanh(x) ==
    LET m == Abs(x)
        t == IF m + 1 <= Len(TanhTable) THEN TanhTable[m + 1] ELSE ONE
    IN  IF x < 0 THEN -t ELSE t

---------------------------------------------------------------------------
(* Inputs *)

\* leaf values of the arbitrary client: 0.5 and -1.0
LeafValues == {5, -10}

\* the seed written into a root's grad: -2.0 (main.rs seeds 1.0)
Seeds == {-20}

\* learning rates: 0.5
Rates == {5}

\* main.rs: the literals 2.0, -3.0, 10.0, -2.0 and, beside each, a value
\* that keeps the tanh of the demo expression off saturation
MainA == {20, 5}
MainB == {-30, -10}
MainC == {100, 10}
MainF == {-20, 20}
MainSeed == 10
MainRate == 1

---------------------------------------------------------------------------
(* struct Value and its builders *)

None == [some |-> FALSE, vec |-> <<>>]

Some(v) == [some |-> TRUE, vec |-> v]

Operations == {"Add", "Mul", "Tanh"}

\* Value::new
new(value) ==
    [value |-> value, grad |-> 0, children |-> None,
     operation |-> "None", label |-> ""]

\* Value::children (private builder)
children(self, vec) == [self EXCEPT !.children = Some(vec)]

\* Value::operation (private builder)
operation(self, op) == [self EXCEPT !.operation = op]

\* Value::label
label(self, l) == [self EXCEPT !.label = l]

\* Operation::to_string
to_string(op) ==
    CASE op = "Add"  -> "+"
      [] op = "Mul"  -> "-"
      [] op = "Tanh" -> "tanh"

Range(s) == {s[k] : k \in 1..Len(s)}

\* the borrow checker: a value that has been lent as `&'a mut Value<'a>`
\* to a parent stays borrowed for the rest of its life
Borrowed(ns, i) ==
    \E p \in 1..Len(ns) : ns[p].children.some /\ i \in Range(ns[p].children.vec)

Owned(ns, i) == i \in 1..Len(ns) /\ ~Borrowed(ns, i)

---------------------------------------------------------------------------
(* Operators *)

\* impl Add for &mut Value
add(self, rhs, ns) ==
    operation(children(new(FAdd(ns[self].value, ns[rhs].value)),
                       <<self, rhs>>), "Add")

\* a product that adds its operands
mul_as_add(self, rhs, ns) ==
    operation(children(new(FAdd(ns[self].value, ns[rhs].value)),
                       <<self, rhs>>), "Mul")

\* impl Mul for &mut Value
mul(self, rhs, ns) ==
    operation(children(new(FMul(ns[self].value, ns[rhs].value)),
                       <<self, rhs>>), "Mul")

\* Value::tanh
tanh(self, ns) ==
    operation(children(new(FTanh(ns[self].value)), <<self>>), "Tanh")

---------------------------------------------------------------------------
(* Backprop *)

Ok(ns) == [ns |-> ns, panic |-> FALSE]

Panic(ns) == [ns |-> ns, panic |-> TRUE]

\* an Add arm that writes the first child only
add_rule_first(ns, self, k) ==
    LET vec == ns[self].children.vec
    IN  IF Len(vec) = 0 THEN ns
        ELSE [ns EXCEPT ![vec[1]].grad = ns[self].grad]

\* an Add arm that accumulates: child.grad += self.grad
RECURSIVE add_rule_accumulate(_, _, _)
add_rule_accumulate(ns, self, k) ==
    LET vec == ns[self].children.vec
    IN  IF k > Len(vec) THEN ns
        ELSE add_rule_accumulate(
                 [ns EXCEPT ![vec[k]].grad = FAdd(@, ns[self].grad)], self, k + 1)

\* Operation::Add arm: for child in children.iter_mut() { child.grad = self.grad }
RECURSIVE add_rule(_, _, _)
add_rule(ns, self, k) ==
    LET vec == ns[self].children.vec
    IN  IF k > Len(vec) THEN ns
        ELSE add_rule([ns EXCEPT ![vec[k]].grad = ns[self].grad], self, k + 1)

\* a Mul arm that multiplies by the operand's own value
mul_rule_own_value(ns, self) ==
    LET vec == ns[self].children.vec
    IN  IF Len(vec) < 2 THEN Panic(ns)
        ELSE LET n1 == [ns EXCEPT ![vec[1]].grad =
                            FMul(ns[self].grad, ns[vec[1]].value)]
                 n2 == [n1 EXCEPT ![vec[2]].grad =
                            FMul(n1[self].grad, n1[vec[2]].value)]
             IN  Ok(n2)

\* a Mul arm that zeroes the gradient it has propagated
mul_rule_consuming(ns, self) ==
    LET vec == ns[self].children.vec
    IN  IF Len(vec) < 2 THEN Panic(ns)
        ELSE LET n1 == [ns EXCEPT ![vec[1]].grad =
                            FMul(ns[self].grad, ns[vec[2]].value)]
                 n2 == [n1 EXCEPT ![vec[2]].grad =
                            FMul(n1[self].grad, n1[vec[1]].value)]
             IN  Ok([n2 EXCEPT ![self].grad = 0])

\* Operation::Mul arm; the right-hand side is evaluated before the place, so
\* children[1] panics before anything is written when it does not exist
mul_rule(ns, self) ==
    LET vec == ns[self].children.vec
    IN  IF Len(vec) < 2 THEN Panic(ns)
        ELSE LET n1 == [ns EXCEPT ![vec[1]].grad =
                            FMul(ns[self].grad, ns[vec[2]].value)]
                 n2 == [n1 EXCEPT ![vec[2]].grad =
                            FMul(n1[self].grad, n1[vec[1]].value)]
             IN  Ok(n2)

\* a Tanh arm that forgets the square: (1.0 - self.value) * self.grad
tanh_rule_unsquared(ns, self) ==
    LET vec == ns[self].children.vec
    IN  IF Len(vec) < 1 THEN Panic(ns)
        ELSE Ok([ns EXCEPT ![vec[1]].grad =
                    FMul(FSub(ONE, ns[self].value), ns[self].grad)])

\* Operation::Tanh arm
tanh_rule(ns, self) ==
    LET vec == ns[self].children.vec
    IN  IF Len(vec) < 1 THEN Panic(ns)
        ELSE Ok([ns EXCEPT ![vec[1]].grad =
                    FMul(FSub(ONE, Powi2(ns[self].value)), ns[self].grad)])

\* the match of Value::backward
set_child_grads(ns, self) ==
    CASE ns[self].operation = "Add"  -> Ok(add_rule(ns, self, 1))
      [] ns[self].operation = "Mul"  -> mul_rule(ns, self)
      [] ns[self].operation = "Tanh" -> tanh_rule(ns, self)

\* Value::backward
RECURSIVE backward(_, _)
RECURSIVE propagate(_, _, _)
backward(ns, self) ==
    IF ~ns[self].children.some THEN Ok(ns)
    ELSE IF ns[self].operation = "None" THEN Panic(ns)
    ELSE LET r == set_child_grads(ns, self)
         IN  IF r.panic THEN r ELSE propagate(r.ns, self, 1)

\* a propagation that descends into the first child only
propagate_first(ns, self, k) ==
    LET vec == ns[self].children.vec
    IN  IF Len(vec) = 0 THEN Ok(ns) ELSE backward(ns, vec[1])

\* for child in children { child.backward() }
propagate(ns, self, k) ==
    LET vec == ns[self].children.vec
    IN  IF k > Len(vec) THEN Ok(ns)
        ELSE LET r == backward(ns, vec[k])
             IN  IF r.panic THEN r ELSE propagate(r.ns, self, k + 1)

\* an update that climbs: self.value += self.grad * learning_rate
descend_up(self, learning_rate) ==
    [self EXCEPT !.value = FAdd(self.value, FMul(self.grad, learning_rate))]

\* self.value -= self.grad * learning_rate
descend(self, learning_rate) ==
    [self EXCEPT !.value = FSub(self.value, FMul(self.grad, learning_rate))]

\* Value::apply_grad
RECURSIVE apply_grad(_, _, _)
RECURSIVE apply_children(_, _, _, _)
apply_grad(ns, self, learning_rate) ==
    LET n1 == [ns EXCEPT ![self] = descend(ns[self], learning_rate)]
    IN  IF n1[self].children.some
        THEN apply_children(n1, self, 1, learning_rate)
        ELSE n1

\* for child in children { child.apply_grad(learning_rate) }
apply_children(ns, self, k, learning_rate) ==
    LET vec == ns[self].children.vec
    IN  IF k > Len(vec) THEN ns
        ELSE apply_children(apply_grad(ns, vec[k], learning_rate),
                            self, k + 1, learning_rate)

---------------------------------------------------------------------------
(* Graph export *)

EmptyGraph == [nodes |-> <<>>, edges |-> <<>>]

\* format!("{} | data: {} | grad: {}", label, value, grad)
format(v) == [kind |-> "value", text |-> v.label, data |-> v.value, grad |-> v.grad]

\* the weight of an operation node: the tag alone
op_weight(tag) == [kind |-> "op", text |-> tag, data |-> 0, grad |-> 0]

\* Graph::add_node; the new node's index is its position
add_node(g, w) == [g EXCEPT !.nodes = Append(@, w)]

\* Graph::add_edge
add_edge(g, from, to) == [g EXCEPT !.edges = Append(@, <<from, to>>)]

RECURSIVE add_children(_, _, _, _)
add_children(g, ns, vec, k) ==
    IF k > Len(vec) THEN g
    ELSE add_children(add_node(g, format(ns[vec[k]])), ns, vec, k + 1)

RECURSIVE add_child_edges(_, _, _, _)
add_child_edges(g, first, n, op_node) ==
    IF n = 0 THEN g
    ELSE add_child_edges(add_edge(g, first, op_node), first + 1, n - 1, op_node)

\* Value::inner_graph
RECURSIVE inner_graph(_, _, _, _)
RECURSIVE graph_children(_, _, _, _, _)
inner_graph(ns, self, curr_node, g) ==
    IF ~ns[self].children.some THEN [g |-> g, panic |-> FALSE]
    ELSE IF ns[self].operation = "None" THEN [g |-> g, panic |-> TRUE]
    ELSE LET vec     == ns[self].children.vec
             g1      == add_node(g, op_weight(to_string(ns[self].operation)))
             op_node == Len(g1.nodes)
             g2      == add_children(g1, ns, vec, 1)
             g3      == add_edge(g2, op_node, curr_node)
             g4      == add_child_edges(g3, op_node + 1, Len(vec), op_node)
         IN  graph_children(ns, vec, 1, op_node + 1, g4)

\* for (child, node) in children.iter().zip(nodes) { child.inner_graph(node, graph) }
graph_children(ns, vec, k, node, g) ==
    IF k > Len(vec) THEN [g |-> g, panic |-> FALSE]
    ELSE LET r == inner_graph(ns, vec[k], node, g)
         IN  IF r.panic THEN r
             ELSE graph_children(ns, vec, k + 1, node + 1, r.g)

\* Value::graph, up to the rendering of the finished graph
graph(ns, self) ==
    inner_graph(ns, self, 1, add_node(EmptyGraph, format(ns[self])))

---------------------------------------------------------------------------
(* The clients' calls *)

\* rep: a backward that follows a backward on the same root at once;
\* out: the graph handed to the renderer
Call(op, root, arg, g) ==
    [op |-> op, root |-> root, arg |-> arg, out |-> g,
     rep |-> op = "backward" /\ call.op = op /\ call.root = root]

Other == [op |-> "other", root |-> 0, arg |-> 0, out |-> EmptyGraph, rep |-> FALSE]

Live == ~panicked

\* let mut x = Value::new(v);
New(v) ==
    /\ Live /\ Len(nodes) < MaxNodes
    /\ nodes' = Append(nodes, new(v))
    /\ call' = Other
    /\ UNCHANGED <<applied, panicked>>

\* let mut x = &mut i + &mut j;
Add(i, j) ==
    /\ Live /\ Len(nodes) < MaxNodes
    /\ Owned(nodes, i) /\ Owned(nodes, j) /\ i # j
    /\ nodes' = Append(nodes, add(i, j, nodes))
    /\ call' = Other
    /\ UNCHANGED <<applied, panicked>>

\* let mut x = &mut i * &mut j;
Mul(i, j) ==
    /\ Live /\ Len(nodes) < MaxNodes
    /\ Owned(nodes, i) /\ Owned(nodes, j) /\ i # j
    /\ nodes' = Append(nodes, mul(i, j, nodes))
    /\ call' = Other
    /\ UNCHANGED <<applied, panicked>>

\* let mut x = i.tanh();
Tanh(i) ==
    /\ Live /\ Len(nodes) < MaxNodes
    /\ Owned(nodes, i)
    /\ nodes' = Append(nodes, tanh(i, nodes))
    /\ call' = Other
    /\ UNCHANGED <<applied, panicked>>

\* i.grad = g;
SeedGrad(i, g) ==
    /\ Live /\ Owned(nodes, i)
    /\ nodes' = [nodes EXCEPT ![i].grad = g]
    /\ call' = Other
    /\ UNCHANGED <<applied, panicked>>

\* i.backward();
Backward(i) ==
    /\ Live /\ Owned(nodes, i)
    /\ LET r == backward(nodes, i)
       IN  nodes' = r.ns /\ panicked' = r.panic
    /\ call' = Call("backward", i, 0, EmptyGraph)
    /\ UNCHANGED applied

\* i.apply_grad(lr);
ApplyGrad(i, lr) ==
    /\ Live /\ Owned(nodes, i)
    /\ nodes' = apply_grad(nodes, i, lr)
    /\ applied' = applied + 1
    /\ call' = Call("apply_grad", i, lr, EmptyGraph)
    /\ UNCHANGED panicked

\* i.graph();
Graph(i) ==
    /\ Live /\ Owned(nodes, i)
    /\ LET r == graph(nodes, i)
       IN  call' = Call("graph", i, 0, r.g) /\ panicked' = r.panic
    /\ UNCHANGED <<nodes, applied>>

---------------------------------------------------------------------------
(* An arbitrary client of the public interface *)

Same == UNCHANGED <<pc, writes>>

Write == writes < MaxWrites /\ writes' = writes + 1 /\ UNCHANGED pc

FreeNew == pc = "free" /\ Same /\ \E v \in LeafValues : New(v)

FreeAdd == pc = "free" /\ Same /\ \E i, j \in 1..Len(nodes) : Add(i, j)

FreeMul == pc = "free" /\ Same /\ \E i, j \in 1..Len(nodes) : Mul(i, j)

FreeTanh == pc = "free" /\ Same /\ \E i \in 1..Len(nodes) : Tanh(i)

FreeSeedGrad == pc = "free" /\ Write /\ \E i \in 1..Len(nodes), g \in Seeds : SeedGrad(i, g)

FreeBackward == pc = "free" /\ Write /\ \E i \in 1..Len(nodes) : Backward(i)

FreeApplyGrad ==
    /\ pc = "free" /\ Write
    /\ \E i \in 1..Len(nodes), lr \in Rates : ApplyGrad(i, lr)

FreeGraph == pc = "free" /\ Same /\ \E i \in 1..Len(nodes) : Graph(i)

---------------------------------------------------------------------------
(* main.rs, one statement per step; main's values are nodes 1 to 8 *)

a == 1
b == 2
c == 3
e == 4
d == 5
f == 6
l == 7
out == 8

Goto(line) == pc' = line /\ UNCHANGED writes

MainLeaf(line, next, vs, name) ==
    /\ pc = line /\ Live
    /\ \E v \in vs : nodes' = Append(nodes, label(new(v), name))
    /\ call' = Other
    /\ Goto(next)
    /\ UNCHANGED <<applied, panicked>>

MainNode(line, next, v, name) ==
    /\ pc = line /\ Live
    /\ nodes' = Append(nodes, label(v, name))
    /\ call' = Other
    /\ Goto(next)
    /\ UNCHANGED <<applied, panicked>>

Main5 == MainLeaf("5", "7", MainA, "a")

Main7 == MainLeaf("7", "9", MainB, "b")

Main9 == MainLeaf("9", "11", MainC, "c")

Main11 == MainNode("11", "13", mul(a, b, nodes), "e")

Main13 == MainNode("13", "15", add(c, e, nodes), "d")

Main15 == MainLeaf("15", "17", MainF, "f")

Main17 == MainNode("17", "19", mul(d, f, nodes), "L")

Main19 == MainNode("19", "21", tanh(l, nodes), "out")

Main21 == pc = "21" /\ SeedGrad(out, MainSeed) /\ Goto("22")

Main22 == pc = "22" /\ Backward(out) /\ Goto("24")

Main24 == pc = "24" /\ Graph(out) /\ Goto("26")

Main26 == pc = "26" /\ ApplyGrad(out, MainRate) /\ Goto("28")

Main28 == pc = "28" /\ Graph(out) /\ Goto("end")

---------------------------------------------------------------------------

Init ==
    /\ nodes = <<>>
    /\ pc \in {"free", "5"}
    /\ call = Other
    /\ applied = 0
    /\ writes = 0
    /\ panicked = FALSE

Next ==
    \/ FreeNew \/ FreeAdd \/ FreeMul \/ FreeTanh
    \/ FreeSeedGrad \/ FreeBackward \/ FreeApplyGrad \/ FreeGraph
    \/ Main5 \/ Main7 \/ Main9 \/ Main11 \/ Main13 \/ Main15 \/ Main17
    \/ Main19 \/ Main21 \/ Main22 \/ Main24 \/ Main26 \/ Main28

Spec == Init /\ [][Next]_vars

---------------------------------------------------------------------------
(* Code inside value.rs: the private builders accept any operand vector    *)
(* and any operation tag                                                   *)

\* the sequences of distinct owned values, up to three of them
OperandVecs ==
    LET own == {i \in 1..Len(nodes) : Owned(nodes, i)}
    IN  {<<>>} \cup {<<i>> : i \in own}
        \cup {v \in own \X own : v[1] # v[2]}
        \cup {v \in own \X own \X own : v[1] # v[2] /\ v[1] # v[3] /\ v[2] # v[3]}

\* Value::new(v).children(vec).operation(op)
Build(v, vec, op) ==
    /\ Live /\ Len(nodes) < MaxNodes
    /\ nodes' = Append(nodes, operation(children(new(v), vec), op))
    /\ call' = Other
    /\ UNCHANGED <<applied, panicked>>

RawNew == pc = "raw" /\ Same /\ \E v \in LeafValues : New(v)

RawBuild ==
    /\ pc = "raw" /\ Same
    /\ \E v \in LeafValues, vec \in OperandVecs, op \in Operations : Build(v, vec, op)

RawSeedGrad == pc = "raw" /\ Write /\ \E i \in 1..Len(nodes), g \in Seeds : SeedGrad(i, g)

RawBackward == pc = "raw" /\ Write /\ \E i \in 1..Len(nodes) : Backward(i)

RawInit ==
    /\ nodes = <<>>
    /\ pc = "raw"
    /\ call = Other
    /\ applied = 0
    /\ writes = 0
    /\ panicked = FALSE

RawNext == RawNew \/ RawBuild \/ RawSeedGrad \/ RawBackward

RawSpec == RawInit /\ [][RawNext]_vars

---------------------------------------------------------------------------
(* Vocabulary of the properties *)

Ids == 1..Len(nodes)

Composite(n) == nodes[n].children.some

Leaf(n) == ~nodes[n].children.some

Kids(n) == nodes[n].children.vec

Arity(op) == IF op = "Tanh" THEN 1 ELSE 2

\* the proper descendants of n
RECURSIVE Desc(_, _)
Desc(ns, n) ==
    IF ~ns[n].children.some THEN {}
    ELSE UNION {{k} \cup Desc(ns, k) : k \in Range(ns[n].children.vec)}

Subtree(ns, n) == {n} \cup Desc(ns, n)

\* the step is a call of backward / of apply_grad
BackwardStep == call'.op = "backward" /\ (writes' # writes \/ pc' # pc)

ApplyGradStep == applied' # applied

\* backward has just returned from root r
Ran(r) == call.op = "backward" /\ call.root = r /\ ~panicked

\* the local derivative rule at composite node n, against n's gradient
LocalRule(n) ==
    LET g == nodes[n].grad
        vec == Kids(n)
    IN  CASE nodes[n].operation = "Add" ->
                 \A k \in 1..Len(vec) : nodes[vec[k]].grad = g
          [] nodes[n].operation = "Mul" ->
                 /\ nodes[vec[1]].grad = FMul(g, nodes[vec[2]].value)
                 /\ nodes[vec[2]].grad = FMul(g, nodes[vec[1]].value)
          [] nodes[n].operation = "Tanh" ->
                 nodes[vec[1]].grad = FMul(g, FSub(ONE, Powi2(nodes[n].value)))
          [] OTHER -> FALSE

\* the forward value of composite node n from its operands' current values
Forward(n) ==
    LET vec == Kids(n)
    IN  CASE nodes[n].operation = "Add" ->
                 FAdd(nodes[vec[1]].value, nodes[vec[2]].value)
          [] nodes[n].operation = "Mul" ->
                 FMul(nodes[vec[1]].value, nodes[vec[2]].value)
          [] nodes[n].operation = "Tanh" -> FTanh(nodes[vec[1]].value)

\* n is the result of op applied to leaves
OverLeaves(n, op) ==
    /\ Composite(n) /\ nodes[n].operation = op
    /\ Len(Kids(n)) = Arity(op)
    /\ \A k \in Range(Kids(n)) : Leaf(k)

---------------------------------------------------------------------------
(* C1: the product m of leaves A (value a) and B (value b) has value a*b,  *)
(* and after backward on m with m's gradient g, A's gradient is g*b and    *)
(* B's gradient is g*a.                                                    *)
MulContract ==
    \A m \in Ids : OverLeaves(m, "Mul") =>
        LET A == Kids(m)[1]
            B == Kids(m)[2]
        IN  /\ applied = 0 =>
                nodes[m].value = FMul(nodes[A].value, nodes[B].value)
            /\ Ran(m) =>
                /\ nodes[A].grad = FMul(nodes[m].grad, nodes[B].value)
                /\ nodes[B].grad = FMul(nodes[m].grad, nodes[A].value)

MulContractWitness ==
    \E m \in Ids :
        /\ OverLeaves(m, "Mul") /\ Ran(m) /\ applied = 0
        /\ nodes[m].grad = -20
        /\ nodes[Kids(m)[1]].value = 5 /\ nodes[Kids(m)[2]].value = -10
        /\ nodes[Kids(m)[1]].grad = 20 /\ nodes[Kids(m)[2]].grad = -10

(* C2: the sum s of leaves A and B has value a+b, and after backward on s  *)
(* with s's gradient g, both operands' gradients equal g.                  *)
AddContract ==
    \A s \in Ids : OverLeaves(s, "Add") =>
        LET A == Kids(s)[1]
            B == Kids(s)[2]
        IN  /\ applied = 0 =>
                nodes[s].value = FAdd(nodes[A].value, nodes[B].value)
            /\ Ran(s) =>
                /\ nodes[A].grad = nodes[s].grad
                /\ nodes[B].grad = nodes[s].grad

AddContractWitness ==
    \E s \in Ids :
        /\ OverLeaves(s, "Add") /\ Ran(s) /\ applied = 0
        /\ nodes[s].grad = -20 /\ nodes[s].value = -5
        /\ nodes[Kids(s)[1]].grad = -20 /\ nodes[Kids(s)[2]].grad = -20

(* C3: the node t = tanh(A) has value tanh(a), and after backward on t     *)
(* with t's gradient g, A's gradient is g*(1 - tanh(a)^2), which is        *)
(* g*(1 - t.value^2) computed from t's stored value.                       *)
TanhContract ==
    \A t \in Ids : OverLeaves(t, "Tanh") =>
        LET A == Kids(t)[1]
        IN  /\ applied = 0 => nodes[t].value = FTanh(nodes[A].value)
            /\ Ran(t) =>
                nodes[A].grad =
                    FMul(nodes[t].grad, FSub(ONE, Powi2(nodes[t].value)))
            /\ Ran(t) /\ applied = 0 =>
                nodes[A].grad =
                    FMul(nodes[t].grad, FSub(ONE, Powi2(FTanh(nodes[A].value))))

TanhContractWitness ==
    \E t \in Ids :
        /\ OverLeaves(t, "Tanh") /\ Ran(t) /\ applied = 0
        /\ nodes[t].grad = -20 /\ nodes[t].value = -8
        /\ nodes[Kids(t)[1]].value = -10 /\ nodes[Kids(t)[1]].grad = -8

(* C4: after one backward on a seeded root, the local derivative rule      *)
(* holds at every composite node under the root against that node's final  *)
(* gradient; in main's tree out = tanh((c + a*b) * f) this gives           *)
(* grad(d) = grad(L)*f, grad(f) = grad(L)*d, grad(c) = grad(e) = grad(d),  *)
(* grad(a) = grad(e)*b and grad(b) = grad(e)*a.                            *)
ChainRule ==
    /\ \A r \in Ids : Ran(r) =>
            \A n \in Subtree(nodes, r) : Composite(n) => LocalRule(n)
    /\ pc = "24" =>
            /\ nodes[d].grad = FMul(nodes[l].grad, nodes[f].value)
            /\ nodes[f].grad = FMul(nodes[l].grad, nodes[d].value)
            /\ nodes[c].grad = nodes[d].grad
            /\ nodes[e].grad = nodes[d].grad
            /\ nodes[a].grad = FMul(nodes[e].grad, nodes[b].value)
            /\ nodes[b].grad = FMul(nodes[e].grad, nodes[a].value)

\* main after line 22, with a gradient that reaches the leaves a and b
ChainRuleWitness ==
    /\ pc = "24" /\ Ran(out)
    /\ nodes[out].grad = MainSeed
    /\ nodes[l].grad # 0 /\ nodes[e].grad # 0
    /\ nodes[a].grad # 0 /\ nodes[b].grad # 0
    /\ nodes[a].grad # nodes[b].grad

(* C5: apply_grad(root, lr) sets the value of every node reachable from    *)
(* root to its previous value minus lr times the node's gradient at the    *)
(* time of the call, once per node.                                        *)
ApplyGradContract ==
    [][ApplyGradStep =>
        /\ Len(nodes') = Len(nodes)
        /\ \A n \in Subtree(nodes, call'.root) :
              /\ nodes'[n].value =
                    FSub(nodes[n].value, FMul(call'.arg, nodes[n].grad))
              /\ nodes'[n].grad = nodes[n].grad]_vars

\* an update of a composite root whose leaves carry gradients
ApplyGradWitness ==
    /\ call.op = "apply_grad" /\ applied = 1
    /\ Composite(call.root)
    /\ \E n \in Desc(nodes, call.root) : Leaf(n) /\ nodes[n].grad # 0
    /\ \E n \in Desc(nodes, call.root) : Composite(n) /\ nodes[n].grad # 0

(* C6: a second backward on the same root, right after the first and with  *)
(* nothing reset in between, leaves every gradient as the first left it.   *)
BackwardTwice ==
    [][BackwardStep /\ call.op = "backward" /\ call.root = call'.root
          => nodes' = nodes]_vars

\* backward has run twice in a row on a composite root with a seeded gradient
BackwardTwiceWitness ==
    /\ call.op = "backward" /\ call.rep /\ ~panicked
    /\ Composite(call.root)
    /\ nodes[call.root].grad # 0
    /\ \E n \in Desc(nodes, call.root) : nodes[n].grad # 0

(* C7: the graph export labels the operation of every composite node with  *)
(* "+" for Add, "*" for Multiply and "tanh" for Tanh.                      *)
SpecTag(op) ==
    CASE op = "Add"  -> "+"
      [] op = "Mul"  -> "*"
      [] op = "Tanh" -> "tanh"

\* the tags of the composite nodes under n, in the order the export visits them
RECURSIVE TagsUnder(_, _)
RECURSIVE TagsOfKids(_, _, _)
TagsUnder(ns, n) ==
    IF ~ns[n].children.some THEN <<>>
    ELSE <<SpecTag(ns[n].operation)>> \o TagsOfKids(ns, ns[n].children.vec, 1)

TagsOfKids(ns, vec, k) ==
    IF k > Len(vec) THEN <<>>
    ELSE TagsUnder(ns, vec[k]) \o TagsOfKids(ns, vec, k + 1)

\* the weights of the operation nodes of an exported graph, in order
OpTexts(g) ==
    LET ws == SelectSeq(g.nodes, LAMBDA w : w.kind = "op")
    IN  [k \in 1..Len(ws) |-> ws[k].text]

GraphTags ==
    call.op = "graph" => OpTexts(call.out) = TagsUnder(nodes, call.root)

(* C9: backward(root) changes nothing but the gradients of root's proper   *)
(* descendants; on a leaf it returns at once and changes no node.          *)
BackwardFrame ==
    [][BackwardStep =>
        /\ ~panicked'
        /\ Len(nodes') = Len(nodes)
        /\ \A n \in Ids :
              /\ nodes'[n].value = nodes[n].value
              /\ nodes'[n].operation = nodes[n].operation
              /\ nodes'[n].children = nodes[n].children
              /\ nodes'[n].label = nodes[n].label
              /\ n \notin Desc(nodes, call'.root) => nodes'[n].grad = nodes[n].grad
        /\ Leaf(call'.root) => nodes' = nodes]_vars

\* backward has rewritten gradients under a seeded composite root while a
\* value outside the root's tree holds a gradient of its own
BackwardFrameWitness ==
    /\ call.op = "backward" /\ ~call.rep
    /\ Composite(call.root) /\ nodes[call.root].grad # 0
    /\ \E n \in Desc(nodes, call.root) : nodes[n].grad # 0
    /\ \E n \in Ids \ Subtree(nodes, call.root) : nodes[n].grad # 0

(* C10: while no apply_grad has run, every composite node's value is its   *)
(* operation applied to its operands' current values.                      *)
ForwardValues ==
    applied = 0 => \A n \in Ids : Composite(n) => nodes[n].value = Forward(n)

\* main's whole expression after backward: out = tanh((c + a*b) * f)
ForwardValuesWitness ==
    /\ pc = "24" /\ applied = 0 /\ Ran(out)
    /\ nodes[e].value # 0 /\ nodes[d].value # nodes[c].value
    /\ nodes[l].value # nodes[d].value
    /\ nodes[out].value # nodes[l].value /\ nodes[out].value # ONE

(* C8: backward on a node whose operand count does not match the arity of  *)
(* its operation (Add or Multiply without exactly 2 operands, Tanh without *)
(* exactly 1) aborts, writing no gradient and not returning normally.      *)
Inconsistent(n) ==
    /\ Composite(n) /\ nodes[n].operation \in Operations
    /\ Len(Kids(n)) # Arity(nodes[n].operation)

ArityAbort ==
    [][BackwardStep /\ Inconsistent(call'.root)
          => panicked' /\ nodes' = nodes]_vars

===========================================================================
